---- MODULE Spec2Model ----
(***************************************************************************)
(* A model of segger-rtt-viewer (src/main.py): the SeggerRTTListener       *)
(* context manager / iterator and the main() loop that drives it.          *)
(*                                                                         *)
(* Text is modelled as sequences of code points and transport data as      *)
(* sequences of byte values, so that lower-casing, stripping, splitting    *)
(* and UTF-8 decoding are computed rather than assumed.                    *)
(***************************************************************************)
EXTENDS Integers, Sequences, FiniteSets, TLC

\* ------------------------------------------------------------------ bounds
\* Total number of bytes the target delivers over RTT in one run.
MaxBytes == 3
\* Number of items the consumer loop takes from __next__ in one run.
MaxItems == 3
\* Number of input() prompts answered during interactive device resolution.
MaxInputs == 3
\* Largest up-buffer count rtt_get_num_up_buffers reports.
MaxBuffers == 2
\* Number of times __exit__ is invoked on one listener.
MaxExitCalls == 2

\* ------------------------------------------------------- program constants
\* for _ in range(20)
CB_ATTEMPTS == 20
\* time.sleep(0.1), in milliseconds
CB_SLEEP_MS == 100

\* ------------------------------------------------------------- text helpers
\* str.lower() on the ASCII range (all device names are ASCII).
Lower(c) == IF c \in 65..90 THEN c + 32 ELSE c

LowerStr(s) == [i \in 1..Len(s) |-> Lower(s[i])]

\* str.startswith
StartsWith(s, p) == Len(p) <= Len(s) /\ SubSeq(s, 1, Len(p)) = p

\* The code points below U+0800 for which str.isspace() is true: what
\* str.strip() and str.rstrip() without arguments remove.
Whitespace == {9, 10, 11, 12, 13, 28, 29, 30, 31, 32, 133, 160}

RECURSIVE RStrip(_)
RStrip(s) ==
    IF s = <<>> THEN s
    ELSE IF s[Len(s)] \in Whitespace THEN RStrip(SubSeq(s, 1, Len(s) - 1))
    ELSE s

RECURSIVE LStrip(_)
LStrip(s) ==
    IF s = <<>> THEN s
    ELSE IF s[1] \in Whitespace THEN LStrip(Tail(s))
    ELSE s

Strip(s) == LStrip(RStrip(s))

\* str.split(sep): the segments between occurrences of sep, in order; a
\* string without sep is its own single segment.
RECURSIVE Split(_, _)
Split(s, sep) ==
    IF \E i \in 1..Len(s) : s[i] = sep
    THEN LET i == CHOOSE k \in 1..Len(s) :
                      s[k] = sep /\ \A j \in 1..(k - 1) : s[j] # sep
         IN  <<SubSeq(s, 1, i - 1)>> \o Split(SubSeq(s, i + 1, Len(s)), sep)
    ELSE <<s>>

\* bytes.decode('utf-8') with the default errors='strict', for one- and
\* two-byte sequences: ok is FALSE where Python raises UnicodeDecodeError.
\* (The byte alphabet holds no lead byte of a longer sequence.)
RECURSIVE Utf8Decode(_)
Utf8Decode(b) ==
    IF b = <<>> THEN [ok |-> TRUE, text |-> <<>>]
    ELSE IF b[1] < 128
    THEN LET r == Utf8Decode(Tail(b))
         IN  [ok |-> r.ok, text |-> IF r.ok THEN <<b[1]>> \o r.text ELSE <<>>]
    ELSE IF b[1] \in 194..223 /\ Len(b) >= 2 /\ b[2] \in 128..191
    THEN LET r == Utf8Decode(SubSeq(b, 3, Len(b)))
         IN  [ok |-> r.ok,
              text |-> IF r.ok
                       THEN <<(b[1] - 192) * 64 + (b[2] - 128)>> \o r.text
                       ELSE <<>>]
    ELSE [ok |-> FALSE, text |-> <<>>]

RECURSIVE Concat(_)
Concat(ss) == IF ss = <<>> THEN <<>> ELSE Head(ss) \o Concat(Tail(ss))

\* ----------------------------------------------------------- the environment
\* Names reported by JLink.supported_device(i).name:
\*   "NRF52840_XXAA", "NRF52832_XXAA", "STM32F407VG"
Catalog ==
    << <<78, 82, 70, 53, 50, 56, 52, 48, 95, 88, 88, 65, 65>>,
       <<78, 82, 70, 53, 50, 56, 51, 50, 95, 88, 88, 65, 65>>,
       <<83, 84, 77, 51, 50, 70, 52, 48, 55, 86, 71>> >>

NRF52840 == Catalog[1]
NRF52832 == Catalog[2]
STM32F407 == Catalog[3]

\* What the user types at one "Chip name:" prompt:
\*   "" (just Enter), "NRF52", "nrf52", "8", "4", "S", "ZZZ"
FragNRF52 == <<78, 82, 70, 53, 50>>
Frag8 == <<56>>
Frag4 == <<52>>
FragZZZ == <<90, 90, 90>>
Fragments ==
    { <<>>, FragNRF52, <<110, 114, 102, 53, 50>>, Frag8, Frag4, <<83>>, FragZZZ }

\* device_name given to the constructor: None (modelled as the empty string,
\* which the code treats alike), "STM32F407VG", or "ZZZ".
CtorNames == { <<>>, STM32F407, FragZZZ }

\* Content of .jlink_last_used_device_name when it exists:
\*   "" , "stm32f407vg\n", "ZZZ"
CacheContents ==
    { <<>>, <<115, 116, 109, 51, 50, 102, 52, 48, 55, 118, 103, 10>>, FragZZZ }

\* Byte values the target sends: 'a', '\r', '\n', and 0xC3 0xA9 (the two
\* bytes of U+00E9).
Bytes == {97, 13, 10, 195, 169}

\* Non-empty results of one rtt_read of at most n bytes.
ReadChunks(n) == UNION { [1..k -> Bytes] : k \in 1..n }

\* ------------------------------------------------------------------- state
VARIABLES
    pc,               \* position of the program
    err,              \* exception that ended / is ending the run, or "none"
    jl_open,          \* the J-Link handle is open (JLink.open .. JLink.close)
    rtt_started,      \* an RTT session is started (rtt_start .. rtt_stop)
    target_connected, \* what JLink.target_connected() returns
    device_name,      \* self._jlink_device_name
    file_exists,      \* .jlink_last_used_device_name exists
    file,             \* its content
    dn,               \* _get_device_name: accumulated prefix
    devices,          \* _get_device_name: candidate list (None as <<>>)
    inputs,           \* fragments typed so far in this resolution
    connect_arg,      \* chip_name handed to JLink.connect (<<>> before)
    num_rx_buffers,   \* self._jlink_rtt_num_rx_buffers
    cb_attempts,      \* control-block queries made by __enter__
    cb_fails,         \* of those, "not yet found" failures
    cb_wait_ms,       \* time slept between queries
    cb_result,        \* what the successful query returned, -1 if none did
    chan,             \* read_blocking: channel index i
    rx_data,          \* read_blocking: result of the latest rtt_read
    polled,           \* <<channel, result>> of each rtt_read of this round
    reads,            \* non-empty chunks the transport delivered, in order
    emitted,          \* items __next__ returned to the consumer, in order
    disc_observed,    \* __next__ has seen connected == False
    stop_calls,       \* rtt_stop calls issued
    close_calls,      \* JLink.close calls issued
    exit_calls        \* __exit__ invocations

vars == << pc, err, jl_open, rtt_started, target_connected, device_name,
           file_exists, file, dn, devices, inputs, connect_arg,
           num_rx_buffers, cb_attempts, cb_fails, cb_wait_ms, cb_result,
           chan, rx_data, polled, reads, emitted, disc_observed,
           stop_calls, close_calls, exit_calls >>

resolverVars == << device_name, file_exists, file, dn, devices, inputs >>
cbVars == << num_rx_buffers, cb_attempts, cb_fails, cb_wait_ms, cb_result >>
framerVars == << chan, rx_data, polled, reads, emitted, disc_observed >>
exitVars == << stop_calls, close_calls, exit_calls >>
linkVars == << jl_open, rtt_started, target_connected, connect_arg >>

\* SeggerRTTListener.__init__, then main() is about to enter the with block.
Init ==
    /\ pc = "start"
    /\ err = "none"
    /\ jl_open = FALSE
    /\ rtt_started = FALSE
    /\ target_connected = FALSE
    /\ device_name \in CtorNames
    /\ file_exists \in BOOLEAN
    /\ file \in (IF file_exists THEN CacheContents ELSE { <<>> })
    /\ dn = <<>>
    /\ devices = <<>>
    /\ inputs = <<>>
    /\ connect_arg = <<>>
    /\ num_rx_buffers = 0
    /\ cb_attempts = 0
    /\ cb_fails = 0
    /\ cb_wait_ms = 0
    /\ cb_result = -1
    /\ chan = 0
    /\ rx_data = <<>>
    /\ polled = <<>>
    /\ reads = <<>>
    /\ emitted = <<>>
    /\ disc_observed = FALSE
    /\ stop_calls = 0
    /\ close_calls = 0
    /\ exit_calls = 0

\* ------------------------------------------------------ device resolution
\* _validate_device_name without the .lower() calls.
ValidateDeviceName_CaseSensitive(name) ==
    name \in { Catalog[i] : i \in 1..Len(Catalog) }

\* _validate_device_name
ValidateDeviceName(name) ==
    LowerStr(name) \in { LowerStr(Catalog[i]) : i \in 1..Len(Catalog) }

\* FilterDevices without the .lower() on the catalog name.
FilterDevices_CaseSensitive(list, dn_lower) ==
    SelectSeq(list, LAMBDA name : StartsWith(name, dn_lower))

\* [sd_ for sd_ in devices if sd_.name.lower().startswith(dn_lower)]
FilterDevices(list, dn_lower) ==
    SelectSeq(list, LAMBDA name : StartsWith(LowerStr(name), dn_lower))

\* NarrowDevices that filters only when it builds the list.
NarrowDevices_NoRefilter(cur, new_dn) ==
    IF cur = <<>> THEN FilterDevices(Catalog, LowerStr(new_dn)) ELSE cur

\* One pass of the prompt loop body after a non-empty fragment made the
\* prefix new_dn: the candidate list it leaves.
NarrowDevices(cur, new_dn) ==
    LET dn_lower == LowerStr(new_dn)
        built == IF cur = <<>> THEN FilterDevices(Catalog, dn_lower) ELSE cur
    IN  FilterDevices(built, dn_lower)

\* WriteCache with the file opened for appending.
WriteCache_Append(name) ==
    /\ file_exists' = TRUE
    /\ file' = file \o name

\* with open(last_used_chip_name_fn, 'w') as f: f.write(name)
WriteCache(name) ==
    /\ file_exists' = TRUE
    /\ file' = name

\* ------------------------------------------------------------- __enter__
\* self._jlink.open()
EnterOpen ==
    /\ pc = "start"
    /\ \E ok \in BOOLEAN :
         IF ok
         THEN /\ jl_open' = TRUE
              /\ pc' = "get_name"
              /\ err' = err
         ELSE /\ jl_open' = jl_open
              /\ pc' = "failed"
              /\ err' = "JLinkException"
    /\ UNCHANGED << rtt_started, target_connected, connect_arg >>
    /\ UNCHANGED << resolverVars, cbVars, framerVars, exitVars >>

\* _get_device_name up to its first prompt: a name given to the constructor
\* is used as it is; otherwise the cached name is read, stripped and
\* validated, and an absent, empty or invalid one leads to the prompt loop.
GetDeviceName ==
    /\ pc = "get_name"
    /\ IF device_name # <<>>
       THEN /\ WriteCache(device_name)
            /\ pc' = "named"
            /\ UNCHANGED << device_name, dn, devices, inputs >>
       ELSE LET cached == IF file_exists THEN Strip(file) ELSE <<>>
            IN  IF cached # <<>> /\ ValidateDeviceName(cached)
                THEN /\ device_name' = cached
                     /\ WriteCache(cached)
                     /\ pc' = "named"
                     /\ UNCHANGED << dn, devices, inputs >>
                ELSE /\ pc' = "input"
                     /\ dn' = <<>>
                     /\ devices' = <<>>
                     /\ UNCHANGED << device_name, file_exists, file, inputs >>
    /\ UNCHANGED << err, linkVars, cbVars, framerVars, exitVars >>

\* One input() of the prompt loop and the loop body that follows it.
InputFragment ==
    /\ pc = "input"
    /\ Len(inputs) < MaxInputs
    /\ \E input_dn \in Fragments :
         /\ inputs' = Append(inputs, input_dn)
         /\ IF input_dn = <<>>
            THEN UNCHANGED << pc, err, dn, devices >>
            ELSE LET new_dn == dn \o input_dn
                     left == NarrowDevices(devices, new_dn)
                 IN  /\ dn' = new_dn
                     /\ devices' = left
                     /\ IF left = <<>>
                        THEN \* return None; __enter__ raises ValueError
                             /\ pc' = "failed"
                             /\ err' = "ValueError"
                        ELSE /\ pc' = IF Len(left) = 1 THEN "resolved"
                                      ELSE "input"
                             /\ err' = err
    /\ UNCHANGED << device_name, file_exists, file >>
    /\ UNCHANGED << linkVars, cbVars, framerVars, exitVars >>

\* The prompt loop ended with device_name = devices[0].name: store it,
\* write the cache file and return (the locals go out of scope).
PersistResolved ==
    /\ pc = "resolved"
    /\ device_name' = devices[1]
    /\ WriteCache(devices[1])
    /\ dn' = <<>>
    /\ devices' = <<>>
    /\ inputs' = <<>>
    /\ pc' = "named"
    /\ UNCHANGED << err, linkVars, cbVars, framerVars, exitVars >>

\* set_tif, connect(chip_name=...), rtt_start
ConnectTarget ==
    /\ pc = "named"
    /\ connect_arg' = device_name
    /\ \E outcome \in {"ok", "connect_error", "rtt_start_error"} :
         CASE outcome = "ok" ->
                /\ target_connected' = TRUE
                /\ rtt_started' = TRUE
                /\ pc' = "await_cb"
                /\ err' = err
           [] outcome = "connect_error" ->
                /\ pc' = "failed"
                /\ err' = "JLinkException"
                /\ UNCHANGED << target_connected, rtt_started >>
           [] outcome = "rtt_start_error" ->
                /\ target_connected' = TRUE
                /\ pc' = "failed"
                /\ err' = "JLinkRTTException"
                /\ UNCHANGED rtt_started
    /\ UNCHANGED jl_open
    /\ UNCHANGED << resolverVars, cbVars, framerVars, exitVars >>

\* CbQueryOk without the break: the loop goes on querying.
CbQueryOk_NoBreak(n) ==
    /\ num_rx_buffers' = n
    /\ cb_attempts' = cb_attempts + 1
    /\ cb_result' = n
    /\ pc' = IF cb_attempts + 1 < CB_ATTEMPTS THEN "await_cb" ELSE "cb_done"
    /\ UNCHANGED << err, cb_fails, cb_wait_ms >>

\* rtt_get_num_up_buffers() returned n: record it and break.
CbQueryOk(n) ==
    /\ num_rx_buffers' = n
    /\ cb_attempts' = cb_attempts + 1
    /\ cb_result' = n
    /\ pc' = "cb_done"
    /\ UNCHANGED << err, cb_fails, cb_wait_ms >>

\* It raised "The RTT Control Block has not yet been found": sleep and go
\* round; after the last round the loop simply ends.
CbQueryNotFound ==
    /\ cb_attempts' = cb_attempts + 1
    /\ cb_fails' = cb_fails + 1
    /\ cb_wait_ms' = cb_wait_ms + CB_SLEEP_MS
    /\ pc' = IF cb_attempts + 1 < CB_ATTEMPTS THEN "await_cb" ELSE "cb_done"
    /\ UNCHANGED << err, num_rx_buffers, cb_result >>

\* It raised another JLinkRTTException: raise e
CbQueryRaise ==
    /\ cb_attempts' = cb_attempts + 1
    /\ pc' = "failed"
    /\ err' = "JLinkRTTException"
    /\ UNCHANGED << num_rx_buffers, cb_fails, cb_wait_ms, cb_result >>

\* One round of the for _ in range(20) loop.
QueryControlBlock ==
    /\ pc = "await_cb"
    /\ \/ \E n \in 0..MaxBuffers : CbQueryOk(n)
       \/ CbQueryNotFound
       \/ CbQueryRaise
    /\ UNCHANGED << linkVars, resolverVars, framerVars, exitVars >>

\* After the loop: print the connection info and return self.
EnterFinish ==
    /\ pc = "cb_done"
    /\ pc' = "idle"
    /\ cb_attempts' = 0
    /\ cb_fails' = 0
    /\ cb_wait_ms' = 0
    /\ UNCHANGED << num_rx_buffers, cb_result >>
    /\ UNCHANGED << err, linkVars, resolverVars, framerVars, exitVars >>

\* The target resets, is unplugged or loses power: from then on
\* target_connected() is false.
TargetDisconnect ==
    /\ pc \in {"await_cb", "idle", "poll", "sleep"}
    /\ target_connected
    /\ target_connected' = FALSE
    /\ UNCHANGED << pc, err, jl_open, rtt_started, connect_arg >>
    /\ UNCHANGED << resolverVars, cbVars, framerVars, exitVars >>

\* ---------------------------------------------------- read_blocking, __next__
\* An item __next__ returns: a line of text, or the StopIteration class.
LineItem(text) == [kind |-> "line", text |-> text]
StopIterationItem == [kind |-> "StopIteration", text |-> <<>>]

\* HasData that takes an empty read for data.
HasData_Always(data) == TRUE

\* if rx_data:
HasData(data) == data # <<>>

\* NextLine without the rstrip().
NextLine_NoStrip(rx_text) == Split(rx_text, 10)[1]

\* for line in rx_data.split("\n"): return line.rstrip()
NextLine(rx_text) == RStrip(Split(rx_text, 10)[1])

BytesReceived == Len(Concat(reads))

\* The consumer loop asks for the next item: __next__ up to read_blocking.
NextCall ==
    /\ pc = "idle"
    /\ Len(emitted) < MaxItems
    /\ IF ~target_connected
       THEN \* return StopIteration
            /\ emitted' = Append(emitted, StopIterationItem)
            /\ disc_observed' = TRUE
            /\ UNCHANGED << pc, chan, polled >>
       ELSE /\ pc' = "poll"
            /\ chan' = 0
            /\ polled' = <<>>
            /\ UNCHANGED << emitted, disc_observed >>
    /\ UNCHANGED << rx_data, reads >>
    /\ UNCHANGED << err, linkVars, resolverVars, cbVars, exitVars >>

\* read_blocking got data from channel chan; __next__ decodes it and
\* returns its first line, or the decoding raises.
ReadReturn(data) ==
    LET dec == Utf8Decode(data)
    IN  /\ reads' = Append(reads, data)
        /\ IF dec.ok
           THEN /\ emitted' = Append(emitted, LineItem(NextLine(dec.text)))
                /\ pc' = "idle"
                /\ err' = err
           ELSE /\ emitted' = emitted
                /\ pc' = "raising"
                /\ err' = "UnicodeDecodeError"
        /\ UNCHANGED chan

\* One rtt_read(i, MAX_BUF_SIZE) of the for loop in read_blocking.
RttRead ==
    /\ pc = "poll"
    /\ chan < num_rx_buffers
    /\ \/ \E data \in { <<>> } \cup ReadChunks(MaxBytes - BytesReceived) :
            /\ rx_data' = data
            /\ polled' = Append(polled, << chan, data >>)
            /\ IF HasData(data)
               THEN ReadReturn(data)
               ELSE /\ chan' = chan + 1
                    /\ UNCHANGED << pc, err, reads, emitted >>
       \/ \* rtt_read raises JLinkRTTException
          /\ pc' = "raising"
          /\ err' = "JLinkRTTException"
          /\ UNCHANGED << chan, rx_data, polled, reads, emitted >>
    /\ UNCHANGED disc_observed
    /\ UNCHANGED << linkVars, resolverVars, cbVars, exitVars >>

\* PollSleep that starts the next round after channel 0.
PollSleep_FromOne ==
    /\ pc = "poll"
    /\ chan = num_rx_buffers
    /\ chan' = IF num_rx_buffers > 1 THEN 1 ELSE 0
    /\ polled' = <<>>
    /\ pc' = "sleep"
    /\ UNCHANGED << err, rx_data, reads, emitted, disc_observed >>
    /\ UNCHANGED << linkVars, resolverVars, cbVars, exitVars >>

\* No channel had data in this round: time.sleep(0.01) before the next.
PollSleep ==
    /\ pc = "poll"
    /\ chan = num_rx_buffers
    /\ chan' = 0
    /\ polled' = <<>>
    /\ pc' = "sleep"
    /\ UNCHANGED << err, rx_data, reads, emitted, disc_observed >>
    /\ UNCHANGED << linkVars, resolverVars, cbVars, exitVars >>

\* time.sleep(0.01) returns: while True goes round.
PollWake ==
    /\ pc = "sleep"
    /\ pc' = "poll"
    /\ UNCHANGED << err, linkVars, resolverVars, cbVars, framerVars, exitVars >>

\* ---------------------------------------------------------------- __exit__
\* try: rtt_stop(); close()  except JLinkRTTException: pass
\* stop is what rtt_stop does: return, raise JLinkRTTException, or raise
\* another JLinkException.
ExitBody(stop) ==
    /\ stop_calls' = stop_calls + 1
    /\ CASE stop = "ok" ->
              /\ rtt_started' = FALSE
              /\ close_calls' = close_calls + 1
              /\ jl_open' = FALSE
              /\ err' = err
         [] stop = "rtt_error" ->
              /\ UNCHANGED << rtt_started, close_calls, jl_open, err >>
         [] stop = "error" ->
              /\ err' = "JLinkException"
              /\ UNCHANGED << rtt_started, close_calls, jl_open >>

\* The with block is left by an exception (or __exit__ is invoked again on
\* the listener).
Exit ==
    /\ pc \in {"raising", "exited"}
    /\ exit_calls < MaxExitCalls
    /\ exit_calls' = exit_calls + 1
    /\ pc' = "exited"
    /\ \E stop \in {"ok", "rtt_error", "error"} : ExitBody(stop)
    /\ UNCHANGED << target_connected, connect_arg >>
    /\ UNCHANGED << resolverVars, cbVars, framerVars >>

\* ------------------------------------------------------------ specification
Next ==
    \/ EnterOpen
    \/ GetDeviceName
    \/ InputFragment
    \/ PersistResolved
    \/ ConnectTarget
    \/ QueryControlBlock
    \/ EnterFinish
    \/ TargetDisconnect
    \/ NextCall
    \/ RttRead
    \/ PollSleep
    \/ PollWake
    \/ Exit

Spec == Init /\ [][Next]_vars

\* The steps the program takes by itself: the single thread keeps running,
\* so a step that stays possible is eventually taken. Waiting for the user
\* at the prompt, the target dropping, and a further __exit__ call are not
\* among them.
ProgramStep ==
    \/ EnterOpen
    \/ GetDeviceName
    \/ PersistResolved
    \/ ConnectTarget
    \/ QueryControlBlock
    \/ EnterFinish
    \/ NextCall
    \/ RttRead
    \/ PollSleep
    \/ PollWake

FairSpec == Spec /\ WF_vars(ProgramStep)

\* ------------------------------------------------------------------ claims
\* The text of the lines among the items __next__ has returned, in order.
EmittedLines ==
    LET ls == SelectSeq(emitted, LAMBDA it : it.kind = "line")
    IN  [i \in 1..Len(ls) |-> ls[i].text]

\* No __next__ call is in flight and every chunk received so far decoded.
FramerAtRest ==
    /\ pc = "idle"
    /\ reads # <<>>
    /\ Utf8Decode(Concat(reads)).ok
    /\ \A i \in 1..Len(reads) : Utf8Decode(reads[i]).ok

\* C1: split-invariance of the line framer. However the bytes received so
\* far were split across reads, the lines emitted are the lines emitted when
\* the same bytes arrive in a single read.
C1_SplitInvariance ==
    FramerAtRest =>
        EmittedLines = << NextLine(Utf8Decode(Concat(reads)).text) >>

\* The newline-terminated segments of a text, in order, each without its
\* line ending; what follows the last newline is left out.
TerminatedSegments(text) ==
    LET segs == Split(text, 10)
    IN  [i \in 1..(Len(segs) - 1) |-> RStrip(segs[i])]

\* C2: every newline-terminated segment received is emitted as a line exactly
\* once and in the order received, and a trailing segment without a newline
\* is never emitted.
C2_EveryTerminatedSegmentOnce ==
    FramerAtRest =>
        EmittedLines = TerminatedSegments(Utf8Decode(Concat(reads)).text)

\* C3: the line sequence ends the moment __next__ observes connected ==
\* False: the consumer loop has stopped, and the end was signalled, not
\* handed over as one more item.
C3_EndsOnDisconnect ==
    disc_observed =>
        /\ pc \notin {"idle", "poll", "sleep"}
        /\ \A i \in 1..Len(emitted) : emitted[i].kind = "line"

\* C4: when all 20 control-block queries fail with "not yet found",
\* __enter__ ends Closed with ControlBlockTimeoutError; Connected is never
\* reached without a successful query.
C4_TimeoutOnExhaustedRetries ==
    /\ cb_fails = CB_ATTEMPTS =>
           (pc = "failed" /\ err = "ControlBlockTimeoutError" /\ ~jl_open)
    /\ pc \in {"idle", "poll", "sleep"} => cb_result >= 0

\* C5: k "not yet found" failures (k in 0..19) followed by a success end the
\* retry loop after exactly k + 1 queries, never more than 20, with one
\* fixed wait after each failure, and __enter__ then returns (Connected)
\* with the up-buffer count the successful query reported.
C5_RetryThenSuccess ==
    /\ [](pc = "cb_done" /\ cb_result >= 0 =>
            /\ cb_attempts = cb_fails + 1
            /\ cb_attempts <= CB_ATTEMPTS
            /\ cb_wait_ms = cb_fails * CB_SLEEP_MS
            /\ err = "none")
    /\ [](pc \in {"cb_done", "idle", "poll", "sleep"} /\ cb_result >= 0 =>
            num_rx_buffers = cb_result)
    /\ [][pc = "cb_done" /\ cb_result >= 0 => pc' = "idle"]_vars

\* The 20th query succeeded after 19 failures.
C5_Witness ==
    /\ pc = "cb_done"
    /\ cb_fails = CB_ATTEMPTS - 1
    /\ cb_result = MaxBuffers
    /\ num_rx_buffers = MaxBuffers

\* C6: whenever __enter__ ends with an error, the RTT session has been
\* stopped and the J-Link handle closed before the error is reported.
C6_ReleaseOnFailedEnter ==
    pc = "failed" => (~jl_open /\ ~rtt_started)

\* C7: __exit__ on a listener that is already closed is a no-op: it issues
\* no further rtt_stop or close, raises nothing and leaves it closed.
C7_ExitIdempotent ==
    [][ (pc = "exited" /\ ~jl_open /\ exit_calls' = exit_calls + 1) =>
            /\ stop_calls' = stop_calls
            /\ close_calls' = close_calls
            /\ err' = err
            /\ ~jl_open' ]_vars

\* C8: no line returned by __next__ ends with '\r' or '\n'.
C8_NoTrailingLineEnding ==
    \A i \in 1..Len(emitted) :
        emitted[i].kind = "line" =>
            \/ emitted[i].text = <<>>
            \/ emitted[i].text[Len(emitted[i].text)] \notin {13, 10}

\* "a" and then "\r\n" arrived in two reads and came out as "a" and "".
C8_Witness ==
    /\ reads = << <<97>>, <<13, 10>> >>
    /\ emitted = << LineItem(<<97>>), LineItem(<<>>) >>
    /\ pc = "idle"

\* C9: a read that returns no data produces no line and changes nothing the
\* framer keeps; read_blocking returns only with a read of at least one
\* byte.
C9_EmptyReadChangesNothing ==
    [][ /\ (pc = "poll" /\ rx_data' = <<>>) =>
               /\ emitted' = emitted
               /\ reads' = reads
               /\ disc_observed' = disc_observed
               /\ pc' \in {"poll", "sleep", "raising"}
        /\ (reads' # reads \/ (pc = "poll" /\ pc' = "idle")) =>
               /\ rx_data' # <<>>
               /\ reads' = Append(reads, rx_data') ]_vars

\* Every channel was polled and had nothing, after a line was emitted.
C9_Witness ==
    /\ pc = "poll"
    /\ num_rx_buffers = MaxBuffers
    /\ chan = num_rx_buffers
    /\ rx_data = <<>>
    /\ Len(emitted) = 1
    /\ Len(reads) = 1

\* C10 as stated: after the fragments "NRF52" and "8" the candidate list
\* is exactly NRF52840_XXAA and the prompt loop has ended.
C10_ConvergesAfterSecondFragment ==
    inputs = << FragNRF52, Frag8 >> =>
        (pc = "resolved" /\ devices = << NRF52840 >>)

\* C10 amended: after "NRF52", and still after "8", both NRF52840_XXAA and
\* NRF52832_XXAA are candidates and the prompt is shown again; a third
\* fragment "4" ends the loop with NRF52840_XXAA as the only candidate.
C10_ConvergesAfterThirdFragment ==
    /\ inputs = << FragNRF52 >> =>
           (pc = "input" /\ devices = << NRF52840, NRF52832 >>)
    /\ inputs = << FragNRF52, Frag8 >> =>
           (pc = "input" /\ devices = << NRF52840, NRF52832 >>)
    /\ inputs = << FragNRF52, Frag8, Frag4 >> =>
           (pc = "resolved" /\ devices = << NRF52840 >>)

C10_Witness ==
    /\ inputs = << FragNRF52, Frag8, Frag4 >>
    /\ pc = "resolved"
    /\ dn = FragNRF52 \o Frag8 \o Frag4

\* Some catalog name starts, case-insensitively, with the prefix p.
SomeNameStartsWith(p) ==
    \E i \in 1..Len(Catalog) : StartsWith(LowerStr(Catalog[i]), LowerStr(p))

C12_ResolvedNamePersisted ==
    (pc = "named" \/ connect_arg # <<>>) =>
        /\ device_name # <<>>
        /\ file_exists
        /\ file = device_name

\* The name came from the prompt loop and replaced an invalid cached one.
C12_Witness ==
    /\ pc = "named"
    /\ device_name = NRF52840
    /\ file = NRF52840

\* C13: the chip name handed to JLink.connect is always one that matches a
\* catalog name case-insensitively.
C13_ConnectNameValidated ==
    connect_arg # <<>> => ValidateDeviceName(connect_arg)

\* C14: a read that ends in the middle of a multi-byte UTF-8 sequence (here
\* after the lead byte 0xC3) is not fatal: no exception leaves __next__.
C14_SplitSequenceNotFatal ==
    (reads # <<>> /\ reads[Len(reads)][Len(reads[Len(reads)])] = 195) =>
        (pc \notin {"raising", "exited"} /\ err = "none")

Range(seq) == { seq[i] : i \in 1..Len(seq) }

\* The catalog names that start, case-insensitively, with the prefix p.
NamesStartingWith(p) ==
    { Catalog[i] : i \in { k \in 1..Len(Catalog) :
                             StartsWith(LowerStr(Catalog[k]), LowerStr(p)) } }

\* C15: after each non-empty fragment the candidates are exactly the
\* catalog names that start, case-insensitively, with the accumulated
\* prefix; the candidates only shrink; and the loop ends, with the sole
\* candidate as the name, exactly when one candidate is left.
C15_PrefixFilter ==
    /\ []((pc \in {"input", "resolved"} /\ dn # <<>>) =>
              /\ Range(devices) = NamesStartingWith(dn)
              /\ Cardinality(Range(devices)) = Len(devices)
              /\ (pc = "resolved" <=> Len(devices) = 1))
    /\ [][(pc = "input" /\ devices # <<>>) =>
              Range(devices') \subseteq Range(devices)]_vars
    /\ [][(pc = "resolved" /\ pc' # pc) =>
              (pc' = "named" /\ device_name' = devices[1])]_vars

\* "nrf52", "8", "4": three candidates, two, two, then one.
C15_Witness ==
    /\ pc = "resolved"
    /\ inputs = << <<110, 114, 102, 53, 50>>, Frag8, Frag4 >>
    /\ devices = << NRF52840 >>

\* C16: with no constructor name, a cached name that matches a catalog name
\* case-insensitively is used without any prompt; one that matches none (or
\* no cache at all) leads to the prompt loop, whose result is a catalog
\* name: the invalid cached value is never returned.
C16_CachedNameValidated ==
    /\ [][(pc = "get_name" /\ device_name = <<>> /\ pc' # pc) =>
              IF /\ file_exists
                 /\ \E i \in 1..Len(Catalog) :
                        LowerStr(Strip(file)) = LowerStr(Catalog[i])
              THEN /\ pc' = "named"
                   /\ device_name' = Strip(file)
                   /\ inputs' = <<>>
              ELSE /\ pc' = "input"
                   /\ device_name' = <<>>]_vars
    /\ [][(pc = "resolved" /\ pc' # pc) =>
              device_name' \in Range(Catalog)]_vars
    /\ [](pc \in {"input", "resolved"} => device_name = <<>>)

\* The cached "stm32f407vg\n" was taken, stripped, without a prompt.
C16_Witness ==
    /\ pc = "named"
    /\ device_name = << 115, 116, 109, 51, 50, 102, 52, 48, 55, 118, 103 >>
    /\ inputs = <<>>
    /\ connect_arg = <<>>

\* C17: every round of read_blocking polls the channels in ascending order
\* from 0 and stops at the first one that has data, so the data returned is
\* that of the lowest-indexed channel with data in the round.
C17_LowestChannelFirst ==
    /\ Len(polled) <= num_rx_buffers
    /\ \A k \in 1..Len(polled) :
         /\ polled[k][1] = k - 1
         /\ k < Len(polled) => polled[k][2] = <<>>
    /\ (pc = "idle" /\ polled # <<>>) =>
         /\ polled[Len(polled)][2] # <<>>
         /\ reads # <<>>
         /\ reads[Len(reads)] = polled[Len(polled)][2]

\* Channel 0 had nothing and channel 1 delivered the line.
C17_Witness ==
    /\ pc = "idle"
    /\ Len(polled) = 2
    /\ polled[1] = << 0, <<>> >>
    /\ polled[2] = << 1, <<97, 10>> >>
    /\ emitted = << LineItem(<<97>>) >>

\* C18: when __exit__ returns after leaving the with block, the J-Link
\* handle has been closed, also when rtt_stop failed with an RTT error.
C18_ExitAlwaysCloses ==
    [][(pc = "raising" /\ pc' = "exited" /\ err' = err) =>
           (~jl_open' /\ close_calls' = close_calls + 1)]_vars

\* A line with at most one trailing '\r' removed.
StripOneCR(seg) ==
    IF seg # <<>> /\ seg[Len(seg)] = 13
    THEN SubSeq(seg, 1, Len(seg) - 1)
    ELSE seg

\* C20: an emitted line is the segment before the first newline of the read
\* with at most one trailing '\r' removed and everything else kept.
C20_OnlyOneCarriageReturnStripped ==
    [][(emitted' # emitted /\ emitted'[Len(emitted')].kind = "line") =>
           emitted'[Len(emitted')].text =
               StripOneCR(Split(Utf8Decode(rx_data').text, 10)[1])]_vars

\* C19: a __next__ call that is waiting for data while the target is
\* disconnected eventually returns.
C19_WaitingCallReturns ==
    (pc \in {"poll", "sleep"} /\ ~target_connected) ~>
        (pc \notin {"poll", "sleep"})

====
